---------------------------- MODULE Spec2Model ----------------------------
(***************************************************************************)
(* A model of four classes of abydos:                                      *)
(*   abydos.distance.HarrisLahey, abydos.distance.UnknownB                 *)
(*   abydos.tokenizer.CVClusterTokenizer, abydos.tokenizer.WhitespaceTokenizer *)
(*                                                                         *)
(* A Python str is a sequence of characters; a character is a one-element  *)
(* TLA+ string, or a name ("kelvin", "e_acute", "acute") for a character   *)
(* outside ASCII.  A Python float is the exact rational it approximates,   *)
(* a record [num, den] in lowest terms; den = 0 stands for a raised        *)
(* ZeroDivisionError.                                                      *)
(***************************************************************************)
EXTENDS Integers, Sequences, FiniteSets, TLC

VARIABLES
    pc,         \* position of the caller: "ready" (arguments chosen), "done" (call returned),
                \* "idle" (nothing called yet), "called", "called again"
    args,       \* the arguments of the pending call (sim: [src, tar]; tokenize: [string]),
                \* or those the tokenizer was constructed with
    alphabet,   \* the comparator's params['alphabet'] after construction
    tokenized,  \* whether the call to sim invoked self._tokenize
    card,       \* the cardinalities the call read: [a, b, c, d, n]
    ret,        \* what the call returned: [callee, value, divs]
    tk          \* the tokenizer instance: its configuration, _string, _ordered_tokens, _tokens,
                \* and the local token_list of its last tokenize call

vars == <<pc, args, alphabet, tokenized, card, ret, tk>>

---------------------------------------------------------------------------
(* Bounds of the model *)

\* largest count a, b, c or d drawn when the formulas are applied to counts
MaxCount == 6
\* longest generated argument of sim
MaxStrLen == 3
\* an explicitly given integer alphabet (population size)
SmallAlphabet == 5

---------------------------------------------------------------------------
(* Sequences and numbers *)

Range(s) == {s[i] : i \in DOMAIN s}

Min(x, y) == IF x <= y THEN x ELSE y

Max(x, y) == IF x >= y THEN x ELSE y

Abs(x) == IF x < 0 THEN -x ELSE x

RECURSIVE GCD(_, _)
GCD(m, n) == IF n = 0 THEN m ELSE GCD(n, m % n)

RECURSIVE SumOver(_, _)
SumOver(f, S) ==
    IF S = {} THEN 0
    ELSE LET x == CHOOSE y \in S : TRUE
         IN f[x] + SumOver(f, S \ {x})

\* all sequences over S of length at most n
StringsUpTo(S, n) == UNION {[1..k -> S] : k \in 0..n}

---------------------------------------------------------------------------
(* Python floats as exact rationals *)

ZeroDivisionError == [num |-> 0, den |-> 0]

Raised(x) == x.den = 0

Q(n, d) ==
    LET g == GCD(Abs(n), Abs(d))
        s == IF d < 0 THEN -1 ELSE 1
    IN [num |-> s * (n \div g), den |-> s * (d \div g)]

FromInt(k) == [num |-> k, den |-> 1]

\* x / y
QDiv(x, y) ==
    IF Raised(x) \/ Raised(y) \/ y.num = 0 THEN ZeroDivisionError
    ELSE LET g1 == GCD(Abs(x.num), Abs(y.num))
             g2 == GCD(x.den, y.den)
             n1 == IF g1 = 0 THEN 0 ELSE (x.num \div g1) * (y.den \div g2)
             d1 == IF g1 = 0 THEN 1 ELSE (x.den \div g2) * (y.num \div g1)
         IN Q(n1, d1)

\* x * y
QMul(x, y) ==
    IF Raised(x) \/ Raised(y) THEN ZeroDivisionError
    ELSE LET g1 == GCD(Abs(x.num), y.den)
             g2 == GCD(Abs(y.num), x.den)
         IN Q((x.num \div g1) * (y.num \div g2), (x.den \div g2) * (y.den \div g1))

\* x + y
QAdd(x, y) ==
    IF Raised(x) \/ Raised(y) THEN ZeroDivisionError
    ELSE LET g == GCD(x.den, y.den)
             l == (x.den \div g) * y.den
         IN Q(x.num * (l \div x.den) + y.num * (l \div y.den), l)

QLeq(x, y) == x.num * y.den <= y.num * x.den

\* floor(x * 10^k) and the remainder over x.den, by long division, for x >= 0
RECURSIVE Shifted(_, _)
Shifted(x, k) ==
    IF k = 0 THEN [q |-> x.num \div x.den, r |-> x.num % x.den]
    ELSE LET p == Shifted(x, k - 1)
         IN [q |-> p.q * 10 + (p.r * 10) \div x.den, r |-> (p.r * 10) % x.den]

\* round(x, 4) * 10^4, for x >= 0 (no literal of the model is a tie)
Round4(x) ==
    LET p == Shifted(x, 4)
    IN p.q + (IF 2 * p.r >= x.den THEN 1 ELSE 0)

Zero == FromInt(0)
One == FromInt(1)

---------------------------------------------------------------------------
(* The token-distance framework (_TokenDistance) and the default q-gram     *)
(* tokenizer (QGrams) that HarrisLahey and UnknownB inherit and call.       *)

\* Counter(tokens): each distinct token with the number of its occurrences
Counter(tokens) ==
    [t \in Range(tokens) |-> Cardinality({i \in DOMAIN tokens : tokens[i] = t})]

\* sum(counter.values())
CounterTotal(X) == SumOver(X, DOMAIN X)

\* the population of the default q-gram tokenizer with qval = 2: 28 ** 2
QGramsAlphabet == 784

\* QGrams(qval=2, start_stop='$#').tokenize(string).get_list()
QGramsTokenize(string) ==
    IF string = <<>> THEN <<>>
    ELSE LET padded == <<"$">> \o string \o <<"#">>
         IN [i \in 1..(Len(padded) - 1) |-> SubSeq(padded, i, i + 1)]

\* self._tokenize(src, tar): the two token multisets
TokenDistance_tokenize(src, tar) ==
    [src_tokens |-> Counter(QGramsTokenize(src)),
     tar_tokens |-> Counter(QGramsTokenize(tar))]

\* crisp intersection: a = sum over shared tokens of min(X[t], Y[t])
IntersectionCard(X, Y) ==
    LET both == (DOMAIN X) \cap (DOMAIN Y)
    IN SumOver([t \in both |-> Min(X[t], Y[t])], both)

\* b = |X| - a
SrcOnlyCard(X, Y) == CounterTotal(X) - IntersectionCard(X, Y)

\* c = |Y| - a
TarOnlyCard(X, Y) == CounterTotal(Y) - IntersectionCard(X, Y)

\* d = |N| - |X u Y|, never negative
TotalComplementCard(X, Y, alpha) ==
    Max(0, alpha - (IntersectionCard(X, Y) + SrcOnlyCard(X, Y) + TarOnlyCard(X, Y)))

\* the five numbers a formula reads after self._tokenize(src, tar); n = a + b + c + d
Cardinalities(src, tar, alpha) ==
    LET t == TokenDistance_tokenize(src, tar)
        X == t.src_tokens
        Y == t.tar_tokens
        a == IntersectionCard(X, Y)
        b == SrcOnlyCard(X, Y)
        c == TarOnlyCard(X, Y)
        d == TotalComplementCard(X, Y, alpha)
    IN [a |-> a, b |-> b, c |-> c, d |-> d, n |-> a + b + c + d]

\* no cardinality was read
NoCard == [a |-> -1, b |-> -1, c |-> -1, d |-> -1, n |-> -1]

---------------------------------------------------------------------------
(* HarrisLahey.sim *)

\* faulty variant: the n terms of the denominators halved away (divides by n, not by 2n)
HarrisLaheyTermNoHalf(x, y, b, c, n) ==
    QDiv(QMul(QDiv(FromInt(x), FromInt(x + b + c)), FromInt(2 * y + b + c)),
         FromInt(n))

\* faulty variant: the second factor counts the src-only tokens alone
HarrisLaheyTermSrcOnly(x, y, b, c, n) ==
    QDiv(QMul(QDiv(FromInt(x), FromInt(x + b + c)), FromInt(2 * y + b)),
         FromInt(2 * n))

\* faulty variant: the catalog form of the coefficient, without the n terms
HarrisLaheyTermCatalog(x, y, b, c, n) ==
    QMul(QDiv(FromInt(x), FromInt(x + b + c)), FromInt(2 * y + b + c))

\* x / (x + b + c) * (2 * y + b + c) / (2 * n), evaluated left to right
HarrisLaheyTerm(x, y, b, c, n) ==
    QDiv(QMul(QDiv(FromInt(x), FromInt(x + b + c)), FromInt(2 * y + b + c)),
         FromInt(2 * n))

\* the denominators that evaluation divides by, up to the first that is zero
HarrisLaheyTermDivs(x, b, c, n) ==
    IF x + b + c = 0 THEN <<0>> ELSE <<x + b + c, 2 * n>>

\* faulty variant: both terms evaluated whatever the counts are
HarrisLaheyScoreUnguarded(a, b, c, d, n) ==
    LET s1 == QAdd(Zero, HarrisLaheyTerm(a, d, b, c, n))
        d1 == HarrisLaheyTermDivs(a, b, c, n)
        s2 == IF ~Raised(s1) THEN QAdd(s1, HarrisLaheyTerm(d, a, b, c, n)) ELSE s1
        d2 == IF ~Raised(s1) THEN HarrisLaheyTermDivs(d, b, c, n) ELSE <<>>
    IN [value |-> s2, divs |-> d1 \o d2]

\* faulty variant: a term is evaluated only when a and d are both non-zero
HarrisLaheyScoreBothNonZero(a, b, c, d, n) ==
    LET g1 == a # 0 /\ d # 0
        g2 == d # 0 /\ a # 0
        s1 == IF g1 THEN QAdd(Zero, HarrisLaheyTerm(a, d, b, c, n)) ELSE Zero
        d1 == IF g1 THEN HarrisLaheyTermDivs(a, b, c, n) ELSE <<>>
        s2 == IF ~Raised(s1) /\ g2 THEN QAdd(s1, HarrisLaheyTerm(d, a, b, c, n)) ELSE s1
        d2 == IF ~Raised(s1) /\ g2 THEN HarrisLaheyTermDivs(d, b, c, n) ELSE <<>>
    IN [value |-> s2, divs |-> d1 \o d2]

\* lines 156-161: score and the denominators divided by
HarrisLaheyScore(a, b, c, d, n) ==
    LET g1 == a # 0 /\ (d + b + c) # 0
        g2 == d # 0 /\ (a + b + c) # 0
        s1 == IF g1 THEN QAdd(Zero, HarrisLaheyTerm(a, d, b, c, n)) ELSE Zero
        d1 == IF g1 THEN HarrisLaheyTermDivs(a, b, c, n) ELSE <<>>
        s2 == IF ~Raised(s1) /\ g2 THEN QAdd(s1, HarrisLaheyTerm(d, a, b, c, n)) ELSE s1
        d2 == IF ~Raised(s1) /\ g2 THEN HarrisLaheyTermDivs(d, b, c, n) ELSE <<>>
    IN [value |-> s2, divs |-> d1 \o d2]

\* faulty variant: no src == tar short-circuit
HarrisLahey_simNoShortCircuit(src, tar, k) ==
    LET r == HarrisLaheyScore(k.a, k.b, k.c, k.d, k.n)
    IN [callee |-> "HarrisLahey", value |-> r.value, divs |-> r.divs,
        tokenized |-> TRUE, card |-> k]

\* lines 145-161, k being what the cardinality accessors return after _tokenize
HarrisLahey_sim(src, tar, k) ==
    IF src = tar
    THEN [callee |-> "HarrisLahey", value |-> One, divs |-> <<>>,
          tokenized |-> FALSE, card |-> NoCard]
    ELSE LET r == HarrisLaheyScore(k.a, k.b, k.c, k.d, k.n)
         IN [callee |-> "HarrisLahey", value |-> r.value, divs |-> r.divs,
             tokenized |-> TRUE, card |-> k]

---------------------------------------------------------------------------
(* UnknownB.sim *)

\* faulty variant: no test of the numerator before the division
UnknownBScoreUnguarded(a, b, c, d) ==
    LET num == (a * d - b * c) * (a * d - b * c)
        den == (a + b) * (a + c) * (b + d) * (c + d)
    IN [value |-> QDiv(FromInt(num), FromInt(den)), divs |-> <<den>>]

\* lines 146-149: the value and the denominators divided by
UnknownBScore(a, b, c, d) ==
    LET num == (a * d - b * c) * (a * d - b * c)
        den == (a + b) * (a + c) * (b + d) * (c + d)
    IN IF num # 0
       THEN [value |-> QDiv(FromInt(num), FromInt(den)), divs |-> <<den>>]
       ELSE [value |-> Zero, divs |-> <<>>]

\* lines 136-149, k being what the cardinality accessors return after _tokenize
UnknownB_sim(src, tar, k) ==
    IF src = tar
    THEN [callee |-> "UnknownB", value |-> One, divs |-> <<>>,
          tokenized |-> FALSE, card |-> NoCard]
    ELSE LET r == UnknownBScore(k.a, k.b, k.c, k.d)
         IN [callee |-> "UnknownB", value |-> r.value, divs |-> r.divs,
             tokenized |-> TRUE, card |-> [k EXCEPT !.n = -1]]

---------------------------------------------------------------------------
(* Calls of sim *)

NoRet == [callee |-> "none", value |-> Zero, divs |-> <<>>]

NoTokenizer == [class |-> "none"]

Returns(r) ==
    /\ pc' = "done"
    /\ ret' = [callee |-> r.callee, value |-> r.value, divs |-> r.divs]
    /\ tokenized' = r.tokenized
    /\ card' = r.card
    /\ UNCHANGED <<args, alphabet, tk>>

(* SpecCard: sim on two different strings, the cardinality accessors        *)
(* returning any counts a, b, c, d with n = a + b + c + d.                  *)

Counts == 0..MaxCount

InitCard ==
    /\ pc = "ready"
    /\ args = [src |-> <<"s">>, tar |-> <<"t">>]
    /\ \E a \in Counts, b \in Counts, c \in Counts, d \in Counts :
          card = [a |-> a, b |-> b, c |-> c, d |-> d, n |-> a + b + c + d]
    /\ alphabet = card.n
    /\ tokenized = FALSE
    /\ ret = NoRet
    /\ tk = NoTokenizer

HarrisLaheySimCounts ==
    /\ pc = "ready"
    /\ Returns(HarrisLahey_sim(args.src, args.tar, card))

UnknownBSimCounts ==
    /\ pc = "ready"
    /\ Returns(UnknownB_sim(args.src, args.tar, card))

NextCard == HarrisLaheySimCounts \/ UnknownBSimCounts

SpecCard == InitCard /\ [][NextCard]_vars

(* SpecSim: sim on two strings, through the default q-gram tokenizer and     *)
(* the crisp cardinalities.                                                  *)

Cat == <<"c", "a", "t">>
Hat == <<"h", "a", "t">>
ATCG == <<"A", "T", "C", "G">>
TAGC == <<"T", "A", "G", "C">>

SimStrings == StringsUpTo({"a", "b"}, MaxStrLen) \cup {Cat, Hat, ATCG, TAGC}

InitSim ==
    /\ pc = "ready"
    /\ \E s \in SimStrings, t \in SimStrings : args = [src |-> s, tar |-> t]
    /\ alphabet \in {QGramsAlphabet, SmallAlphabet}
    /\ card = NoCard
    /\ tokenized = FALSE
    /\ ret = NoRet
    /\ tk = NoTokenizer

HarrisLaheySim ==
    /\ pc = "ready"
    /\ Returns(HarrisLahey_sim(args.src, args.tar,
                               Cardinalities(args.src, args.tar, alphabet)))

UnknownBSim ==
    /\ pc = "ready"
    /\ Returns(UnknownB_sim(args.src, args.tar,
                            Cardinalities(args.src, args.tar, alphabet)))

NextSim == HarrisLaheySim \/ UnknownBSim

SpecSim == InitSim /\ [][NextSim]_vars

---------------------------------------------------------------------------
(* Characters, the classes of the re module and Unicode normalisation *)

\* set('bcdfghjklmnpqrstvwxz' + 'ß' + 'BCDFGHJKLMNPQRSTVWXZ')
DefaultConsonants ==
    {"b", "c", "d", "f", "g", "h", "j", "k", "l", "m", "n", "p", "q", "r", "s", "t", "v", "w", "x", "z", "eszett",
     "B", "C", "D", "F", "G", "H", "J", "K", "L", "M", "N", "P", "Q", "R", "S", "T", "V", "W", "X", "Z"}

\* set('aeiouyAEIOUY')
DefaultVowels == {"a", "e", "i", "o", "u", "y", "A", "E", "I", "O", "U", "Y"}

Digits == {"0", "1", "2", "3", "4", "5", "6", "7", "8", "9"}

\* letters with a canonical decomposition: U+212A KELVIN SIGN (to K) and the
\* letters with U+030A COMBINING RING ABOVE
Precomposed == {"kelvin", "w_ring", "a_ring", "u_ring", "y_ring", "A_ring", "U_ring"}

\* what \w matches
WordChars == DefaultConsonants \cup DefaultVowels \cup Digits \cup {"_"} \cup Precomposed

\* what \s matches
Whitespace == {" ", "tab", "newline"}

\* "w": matched by \w; "s": matched by \s; "p": matched by [^\w\s]
\* (punctuation, and the combining mark "ring")
CharClass(ch) ==
    IF ch \in WordChars THEN "w" ELSE IF ch \in Whitespace THEN "s" ELSE "p"

\* unicodedata.normalize('NFD', ch) of one character
NFDChar(ch) ==
    CASE ch = "kelvin" -> <<"K">>
      [] ch = "w_ring" -> <<"w", "ring">>
      [] ch = "a_ring" -> <<"a", "ring">>
      [] ch = "u_ring" -> <<"u", "ring">>
      [] ch = "y_ring" -> <<"y", "ring">>
      [] ch = "A_ring" -> <<"A", "ring">>
      [] ch = "U_ring" -> <<"U", "ring">>
      [] OTHER -> <<ch>>

\* unicodedata.normalize('NFD', s); one combining mark, so nothing to reorder
RECURSIVE NFD(_)
NFD(s) == IF s = <<>> THEN <<>> ELSE NFDChar(Head(s)) \o NFD(Tail(s))

RingBases == {"w", "a", "u", "y", "A", "U"}

\* the primary composite of a base letter and the ring
Composite(base) ==
    CASE base = "w" -> "w_ring"
      [] base = "a" -> "a_ring"
      [] base = "u" -> "u_ring"
      [] base = "y" -> "y_ring"
      [] base = "A" -> "A_ring"
      [] base = "U" -> "U_ring"

\* canonical composition of a decomposed string
RECURSIVE Compose(_)
Compose(s) ==
    IF s = <<>> THEN <<>>
    ELSE IF Len(s) >= 2 /\ s[1] \in RingBases /\ s[2] = "ring"
         THEN <<Composite(s[1])>> \o Compose(SubSeq(s, 3, Len(s)))
         ELSE <<s[1]>> \o Compose(Tail(s))

\* unicodedata.normalize('NFC', s)
NFC(s) == Compose(NFD(s))

RECURSIVE Concat(_)
Concat(ss) == IF ss = <<>> THEN <<>> ELSE Head(ss) \o Concat(Tail(ss))

---------------------------------------------------------------------------
(* Regular expressions *)

\* the last index of the run of characters of the classes cls that starts at i
RECURSIVE RunEnd(_, _, _)
RunEnd(string, i, cls) ==
    IF i < Len(string) /\ CharClass(string[i + 1]) \in cls
    THEN RunEnd(string, i + 1, cls)
    ELSE i

\* faulty variant: punctuation matched one character at a time, \w+|[^\w\s]
CVClusterRegexpSinglePunct(string, i) ==
    CASE CharClass(string[i]) = "w" -> RunEnd(string, i, {"w"})
      [] CharClass(string[i]) = "p" -> i
      [] OTHER -> 0

\* faulty variant: whitespace not excluded from the second alternative, \w+|[^\w]+
CVClusterRegexpSpaceMatched(string, i) ==
    CASE CharClass(string[i]) = "w" -> RunEnd(string, i, {"w"})
      [] OTHER -> RunEnd(string, i, {"p", "s"})

\* re.compile(r'\w+|[^\w\s]+'): where the match starting at i ends, 0 if none
\* starts there
CVClusterRegexp(string, i) ==
    CASE CharClass(string[i]) = "w" -> RunEnd(string, i, {"w"})
      [] CharClass(string[i]) = "p" -> RunEnd(string, i, {"p"})
      [] OTHER -> 0

\* faulty variant: one character per match, \S
WhitespaceRegexpSingleChar(string, i) ==
    IF CharClass(string[i]) = "s" THEN 0 ELSE i

\* regexp=r'\S+': where the match starting at i ends, 0 if none starts there
WhitespaceRegexp(string, i) ==
    IF CharClass(string[i]) = "s" THEN 0 ELSE RunEnd(string, i, {"w", "p"})

MatchEnd(regexp, string, i) ==
    IF regexp = "wordpunct" THEN CVClusterRegexp(string, i)
    ELSE WhitespaceRegexp(string, i)

\* regexp.findall(string): the non-overlapping matches, scanning from index i
RECURSIVE FindallFrom(_, _, _)
FindallFrom(regexp, string, i) ==
    IF i > Len(string) THEN <<>>
    ELSE LET j == MatchEnd(regexp, string, i)
         IN IF j = 0 THEN FindallFrom(regexp, string, i + 1)
            ELSE <<SubSeq(string, i, j)>> \o FindallFrom(regexp, string, j + 1)

Findall(regexp, string) == FindallFrom(regexp, string, 1)

---------------------------------------------------------------------------
(* Tokenizers *)

\* _Tokenizer.__init__: the instance before any call of tokenize
FreshTokenizer(class, scaler, consonants, vowels) ==
    [class |-> class, scaler |-> scaler,
     consonants |-> consonants, vowels |-> vowels,
     string |-> <<>>, token_list |-> <<>>, ordered_tokens |-> <<>>, tokens |-> <<>>]

\* CVClusterTokenizer.__init__: an empty or missing set means the default
CVClusterTokenizer_init(scaler, consonants, vowels) ==
    FreshTokenizer("CVClusterTokenizer", scaler,
                   IF consonants # {} THEN consonants ELSE DefaultConsonants,
                   IF vowels # {} THEN vowels ELSE DefaultVowels)

\* WhitespaceTokenizer.__init__
WhitespaceTokenizer_init(scaler) ==
    FreshTokenizer("WhitespaceTokenizer", scaler, {}, {})

\* self._scale_and_counterize(): the multiset of the ordered tokens, scaled
ScaleAndCounterize(self) ==
    LET counts == Counter(self.ordered_tokens)
    IN [self EXCEPT !.tokens =
            IF self.scaler = "set" THEN [t \in DOMAIN counts |-> 1] ELSE counts]

\* faulty variant: a new token starts at a consonant-to-vowel transition
CVStepCutsBeforeVowel(st, char, consonants, vowels) ==
    IF char \in consonants
    THEN [out |-> st.out, new_token |-> Append(st.new_token, char), mode |-> 1]
    ELSE IF char \in vowels
         THEN IF st.mode = 1
              THEN [out |-> Append(st.out, st.new_token), new_token |-> <<char>>, mode |-> 2]
              ELSE [out |-> st.out, new_token |-> Append(st.new_token, char), mode |-> 2]
         ELSE [out |-> st.out, new_token |-> Append(st.new_token, char), mode |-> st.mode]

\* lines 126-137: one character of a token
CVStep(st, char, consonants, vowels) ==
    IF char \in consonants
    THEN IF st.mode = 2
         THEN [out |-> Append(st.out, st.new_token), new_token |-> <<char>>, mode |-> 1]
         ELSE [out |-> st.out, new_token |-> Append(st.new_token, char), mode |-> 1]
    ELSE IF char \in vowels
         THEN [out |-> st.out, new_token |-> Append(st.new_token, char), mode |-> 2]
         ELSE [out |-> st.out, new_token |-> Append(st.new_token, char), mode |-> st.mode]

\* lines 125-139: the characters of a token from index i on, then the last piece
RECURSIVE CVWalk(_, _, _, _, _)
CVWalk(token, i, st, consonants, vowels) ==
    IF i > Len(token) THEN Append(st.out, st.new_token)
    ELSE CVWalk(token, i + 1, CVStep(st, token[i], consonants, vowels),
                consonants, vowels)

\* lines 116-139: one token of token_list, appended to the ordered tokens out
CVSegment(out, token, consonants, vowels) ==
    IF token[1] \notin consonants /\ token[1] \notin vowels
    THEN Append(out, token)
    ELSE CVWalk(NFD(token), 1, [out |-> out, new_token |-> <<>>, mode |-> 0],
                consonants, vowels)

\* lines 115-139: the tokens of token_list from index i on
RECURSIVE CVLoop(_, _, _, _, _)
CVLoop(token_list, i, out, consonants, vowels) ==
    IF i > Len(token_list) THEN out
    ELSE CVLoop(token_list, i + 1,
                CVSegment(out, token_list[i], consonants, vowels),
                consonants, vowels)

\* faulty variant: self._ordered_tokens is not emptied at the start of the call
CVClusterTokenizer_tokenizeNoReset(self, string) ==
    LET token_list == Findall("wordpunct", string)
        raw == CVLoop(token_list, 1, self.ordered_tokens, self.consonants, self.vowels)
    IN ScaleAndCounterize([self EXCEPT !.string = string,
                                       !.token_list = token_list,
                                       !.ordered_tokens = [i \in DOMAIN raw |-> NFC(raw[i])]])

\* CVClusterTokenizer.tokenize, lines 112-146
CVClusterTokenizer_tokenize(self, string) ==
    LET token_list == Findall("wordpunct", string)
        raw == CVLoop(token_list, 1, <<>>, self.consonants, self.vowels)
    IN ScaleAndCounterize([self EXCEPT !.string = string,
                                       !.token_list = token_list,
                                       !.ordered_tokens = [i \in DOMAIN raw |-> NFC(raw[i])]])

\* RegexpTokenizer.tokenize, which WhitespaceTokenizer inherits
RegexpTokenizer_tokenize(self, string) ==
    LET token_list == Findall("whitespace", string)
    IN ScaleAndCounterize([self EXCEPT !.string = string,
                                       !.token_list = token_list,
                                       !.ordered_tokens = token_list])

---------------------------------------------------------------------------
(* Calls of tokenize *)

\* largest length of a generated argument of a single tokenize call
MaxTokLen == 4
\* largest length of a generated argument when tokenize is called repeatedly
MaxReuseLen == 2

SevenTwelfths == <<"s", "e", "v", "e", "n", "-", "t", "w", "e", "l", "f", "t", "h", "s">>
Character == <<"c", "h", "a", "r", "a", "c", "t", "e", "r">>
ABCFACGEAB == <<"a", " ", "b", " ", "c", " ", "f", " ", "a", " ", "c", " ", "g", " ", "e", " ", "a", " ", "b">>

TokLiterals == {SevenTwelfths, Character, ABCFACGEAB}

\* a vowel, a consonant, a digit, two precomposed letters, the combining ring,
\* a punctuation mark and a space
TokAlphabet == {"e", "t", "1", "kelvin", "w_ring", "ring", "-", " "}

TokStrings == StringsUpTo(TokAlphabet, MaxTokLen) \cup TokLiterals

ReuseStrings == StringsUpTo(TokAlphabet, MaxReuseLen) \cup TokLiterals

Scalers == {"none", "set"}

\* sets a caller passes instead of the defaults
CustomConsonants == {"t", "ring"}
CustomVowels == {"e", "1"}

\* the arguments of the constructor
CVConfigs ==
    {[scaler |-> sc, consonants |-> cv[1], vowels |-> cv[2]] :
        sc \in Scalers, cv \in {<<{}, {}>>, <<CustomConsonants, CustomVowels>>}}

NoComparator ==
    /\ alphabet = 0
    /\ tokenized = FALSE
    /\ card = NoCard
    /\ ret = NoRet

(* SpecTok: a tokenizer is constructed and tokenize is called once.         *)

InitTok ==
    /\ pc = "ready"
    /\ \E s \in TokStrings : args = [string |-> s]
    /\ \/ \E cfg \in CVConfigs :
             tk = CVClusterTokenizer_init(cfg.scaler, cfg.consonants, cfg.vowels)
       \/ \E sc \in Scalers : tk = WhitespaceTokenizer_init(sc)
    /\ NoComparator

CVClusterTokenize ==
    /\ pc = "ready"
    /\ tk.class = "CVClusterTokenizer"
    /\ tk' = CVClusterTokenizer_tokenize(tk, args.string)
    /\ pc' = "done"
    /\ UNCHANGED <<args, alphabet, tokenized, card, ret>>

WhitespaceTokenize ==
    /\ pc = "ready"
    /\ tk.class = "WhitespaceTokenizer"
    /\ tk' = RegexpTokenizer_tokenize(tk, args.string)
    /\ pc' = "done"
    /\ UNCHANGED <<args, alphabet, tokenized, card, ret>>

NextTok == CVClusterTokenize \/ WhitespaceTokenize

SpecTok == InitTok /\ [][NextTok]_vars

(* SpecReuse: one CVClusterTokenizer, tokenize called any number of times;  *)
(* args keeps the arguments the instance was constructed with.              *)

InitReuse ==
    /\ pc = "idle"
    /\ args \in CVConfigs
    /\ tk = CVClusterTokenizer_init(args.scaler, args.consonants, args.vowels)
    /\ NoComparator

CVClusterTokenizeAgain ==
    /\ \E s \in ReuseStrings : tk' = CVClusterTokenizer_tokenize(tk, s)
    /\ pc' = IF pc = "idle" THEN "called" ELSE "called again"
    /\ UNCHANGED <<args, alphabet, tokenized, card, ret>>

NextReuse == CVClusterTokenizeAgain

SpecReuse == InitReuse /\ [][NextReuse]_vars

---------------------------------------------------------------------------
(* Claims about HarrisLahey.sim and UnknownB.sim *)

\* C1: for every string s, the empty one included, HarrisLahey.sim(s, s) and
\* UnknownB.sim(s, s) return exactly 1.0 through the src == tar test: the call
\* does not tokenize, reads no cardinality and divides by nothing.
C1_IdentityShortCircuit ==
    (pc = "done" /\ args.src = args.tar) =>
        /\ ret.value = One
        /\ ~tokenized
        /\ card = NoCard
        /\ ret.divs = <<>>

C1_Witness ==
    /\ pc = "done"
    /\ args = [src |-> <<>>, tar |-> <<>>]
    /\ ret.callee = "UnknownB"
    /\ ret.value = One

\* C2: for src # tar, UnknownB.sim returns exactly 0.0 whenever a*d = b*c
\* (a = d = 0 and all four counts 0 included), and divides by nothing.
C2_UnknownBZeroNumerator ==
    (pc = "done" /\ ret.callee = "UnknownB" /\ args.src # args.tar
        /\ card.a * card.d = card.b * card.c) =>
        /\ ret.value = Zero
        /\ ret.divs = <<>>

C2_Witness ==
    /\ pc = "done"
    /\ ret.callee = "UnknownB"
    /\ args.src # args.tar
    /\ card.a = 0 /\ card.b = 0 /\ card.c = 0 /\ card.d = 0
    /\ ret.value = Zero

\* C3: for all counts a, b, c, d >= 0 with n = a + b + c + d, what
\* HarrisLahey.sim and UnknownB.sim return lies in [0, 1].
C3_Range ==
    pc = "done" =>
        /\ ~Raised(ret.value)
        /\ QLeq(Zero, ret.value)
        /\ QLeq(ret.value, One)

C3_Witness ==
    /\ pc = "done"
    /\ ret.callee = "HarrisLahey"
    /\ card.a > 0 /\ card.d > 0 /\ card.b = 0 /\ card.c = 0
    /\ card.n = card.a + card.b + card.c + card.d
    /\ ret.value = One

\* what sim returns with source and target exchanged: b and c change places,
\* a, d and n stay
Exchanged(k) == [k EXCEPT !.b = k.c, !.c = k.b]

SimExchanged ==
    IF ret.callee = "HarrisLahey"
    THEN HarrisLahey_sim(args.tar, args.src, Exchanged(card))
    ELSE UnknownB_sim(args.tar, args.src, Exchanged(card))

\* C4: sim(s, t) = sim(t, s) for HarrisLahey and for UnknownB: exchanging
\* source and target (the src-only count b and the tar-only count c change
\* places; a, d, n stay) does not change the result.
C4_Symmetry ==
    pc = "done" => ret.value = SimExchanged.value

C4_Witness ==
    /\ pc = "done"
    /\ ret.callee = "HarrisLahey"
    /\ card.b # card.c
    /\ card.a > 0 /\ card.d > 0
    /\ ret.value = SimExchanged.value
    /\ ret.value # Zero

---------------------------------------------------------------------------
(* Claims about the tokenizers *)

CVDone == pc = "done" /\ tk.class = "CVClusterTokenizer"

WSDone == pc = "done" /\ tk.class = "WhitespaceTokenizer"

\* the scan of w is in vowel mode when it reaches index i: the last character
\* before i that is a consonant or a vowel is a vowel
InVowelMode(w, i, consonants, vowels) ==
    \E j \in 1..(i - 1) :
        /\ w[j] \in vowels \ consonants
        /\ \A k \in (j + 1)..(i - 1) : w[k] \notin consonants \cup vowels

\* the indices of the consonants reached in vowel mode
CutPositions(w, consonants, vowels) ==
    {i \in DOMAIN w : w[i] \in consonants /\ InVowelMode(w, i, consonants, vowels)}

\* w cut immediately before each index of cuts, from index i on
RECURSIVE SplitFrom(_, _, _)
SplitFrom(w, cuts, i) ==
    IF i > Len(w) THEN <<>>
    ELSE LET later == {c \in cuts : c > i}
             j == IF later = {} THEN Len(w) + 1
                  ELSE CHOOSE c \in later : \A e \in later : c <= e
         IN <<SubSeq(w, i, j - 1)>> \o SplitFrom(w, cuts, j)

\* the decomposed token cut before each consonant reached in vowel mode
CutPieces(token, consonants, vowels) ==
    SplitFrom(NFD(token), CutPositions(NFD(token), consonants, vowels), 1)

Classified(token, consonants, vowels) == token[1] \in consonants \cup vowels

\* what a token of the segmentation contributes to the ordered tokens
PiecesOf(token, consonants, vowels) ==
    IF Classified(token, consonants, vowels)
    THEN LET ps == CutPieces(token, consonants, vowels)
         IN [k \in DOMAIN ps |-> NFC(ps[k])]
    ELSE <<NFC(token)>>

SeTokens ==
    << <<"s", "e">>, <<"v", "e">>, <<"n">>, <<"-">>, <<"t", "w", "e">>,
       <<"l", "f", "t", "h", "s">> >>

ChaTokens == << <<"c", "h", "a">>, <<"r", "a">>, <<"c", "t", "e">>, <<"r">> >>

C6_Literals ==
    tk.consonants = DefaultConsonants /\ tk.vowels = DefaultVowels =>
        /\ tk.string = SevenTwelfths => tk.ordered_tokens = SeTokens
        /\ tk.string = Character => tk.ordered_tokens = ChaTokens

\* C6 as amended: a token whose first character is a consonant or a vowel is
\* decomposed (NFD) and cut immediately before each consonant reached in vowel
\* mode and nowhere else; each piece is emitted recomposed (NFC); no piece
\* after the first starts with anything but a consonant; the pieces give back
\* the word up to canonical equivalence (equal after NFD); 'seven-twelfths'
\* and 'character' yield the documented tokens.
C6_CutsBeforeConsonantInVowelMode ==
    CVDone =>
        LET C == tk.consonants
            V == tk.vowels
            toks == tk.token_list
        IN /\ tk.ordered_tokens = Concat([i \in DOMAIN toks |-> PiecesOf(toks[i], C, V)])
           /\ \A i \in DOMAIN toks :
                 Classified(toks[i], C, V) =>
                    LET ps == CutPieces(toks[i], C, V)
                    IN /\ \A k \in 2..Len(ps) : ps[k][1] \in C
                       /\ NFD(Concat(PiecesOf(toks[i], C, V))) = NFD(toks[i])
           /\ C6_Literals

C6_Witness ==
    /\ CVDone
    /\ tk.consonants = DefaultConsonants /\ tk.vowels = DefaultVowels
    /\ tk.string = SevenTwelfths
    /\ tk.token_list = << <<"s", "e", "v", "e", "n">>, <<"-">>,
                          <<"t", "w", "e", "l", "f", "t", "h", "s">> >>
    /\ tk.ordered_tokens = SeTokens

\* C6 as stated (here for the default consonant and vowel sets alone): the
\* same, with the pieces concatenated in order giving back the word itself.
C6_PiecesGiveBackTheWord ==
    (CVDone /\ tk.consonants = DefaultConsonants /\ tk.vowels = DefaultVowels) =>
        LET C == tk.consonants
            V == tk.vowels
            toks == tk.token_list
        IN /\ tk.ordered_tokens = Concat([i \in DOMAIN toks |-> PiecesOf(toks[i], C, V)])
           /\ \A i \in DOMAIN toks :
                 (Classified(toks[i], C, V) /\ CharClass(toks[i][1]) = "w") =>
                    Concat(PiecesOf(toks[i], C, V)) = toks[i]
           /\ C6_Literals

\* the maximal runs, in s, of characters of the classes cls, as index pairs
MaximalRuns(string, cls) ==
    {r \in (DOMAIN string) \X (DOMAIN string) :
        /\ r[1] <= r[2]
        /\ \A k \in r[1]..r[2] : CharClass(string[k]) \in cls
        /\ r[1] = 1 \/ CharClass(string[r[1] - 1]) \notin cls
        /\ r[2] = Len(string) \/ CharClass(string[r[2] + 1]) \notin cls}

RECURSIVE RunsInOrder(_, _)
RunsInOrder(string, runs) ==
    IF runs = {} THEN <<>>
    ELSE LET first == CHOOSE r \in runs : \A q \in runs : r[1] <= q[1]
         IN <<SubSeq(string, first[1], first[2])>> \o RunsInOrder(string, runs \ {first})

\* the maximal runs of characters of the classes cls, in scan order
MaximalRunsSeq(string, cls) == RunsInOrder(string, MaximalRuns(string, cls))

IsPunctToken(t) == CharClass(t[1]) = "p"

\* the characters of the string that are neither word characters nor whitespace
PunctChars(string) ==
    LET idx == {i \in DOMAIN string : CharClass(string[i]) = "p"}
    IN RunsInOrder(string, {<<i, i>> : i \in idx})

\* C7 as amended: in the segmentation step every maximal run of k adjacent
\* characters that are neither word characters nor whitespace becomes one
\* token of length k (with the default sets it is also one ordered token).
C7_PunctuationRunIsOneToken ==
    CVDone =>
        /\ SelectSeq(tk.token_list, IsPunctToken) = MaximalRunsSeq(tk.string, {"p"})
        /\ tk.consonants = DefaultConsonants /\ tk.vowels = DefaultVowels =>
              SelectSeq(tk.ordered_tokens, IsPunctToken) = MaximalRunsSeq(tk.string, {"p"})

C7_Witness ==
    /\ CVDone
    /\ tk.consonants = DefaultConsonants /\ tk.vowels = DefaultVowels
    /\ tk.string = <<"e", "-", "-">>
    /\ tk.token_list = << <<"e">>, <<"-", "-">> >>
    /\ tk.ordered_tokens = << <<"e">>, <<"-", "-">> >>

\* C7 as stated: every single character that is neither a word character nor
\* whitespace is a token of its own, so k adjacent ones yield k tokens.
C7_EachPunctuationCharIsAToken ==
    CVDone =>
        SelectSeq(tk.token_list, IsPunctToken) = PunctChars(tk.string)

Occurrences(seq, t) == Cardinality({i \in DOMAIN seq : seq[i] = t})

ABCounter ==
    (<<"a">> :> 3) @@ (<<"b">> :> 2) @@ (<<"c">> :> 2) @@ (<<"f">> :> 1)
        @@ (<<"g">> :> 1) @@ (<<"e">> :> 1)

\* C8: with no scaler, WhitespaceTokenizer.tokenize(s) holds as ordered tokens
\* the maximal runs of non-whitespace characters of s in scan order, and as
\* multiset each token with the number of its occurrences in that sequence
\* (the counts sum to its length); 'a b c f a c g e a b' gives
\* {a:3, b:2, c:2, f:1, g:1, e:1}.
C8_WhitespaceTokens ==
    (WSDone /\ tk.scaler = "none") =>
        /\ tk.ordered_tokens = MaximalRunsSeq(tk.string, {"w", "p"})
        /\ DOMAIN tk.tokens = Range(tk.ordered_tokens)
        /\ \A t \in DOMAIN tk.tokens : tk.tokens[t] = Occurrences(tk.ordered_tokens, t)
        /\ SumOver(tk.tokens, DOMAIN tk.tokens) = Len(tk.ordered_tokens)
        /\ tk.string = ABCFACGEAB => tk.tokens = ABCounter

C8_Witness ==
    /\ WSDone
    /\ tk.scaler = "none"
    /\ tk.string = ABCFACGEAB
    /\ Len(tk.ordered_tokens) = 10
    /\ tk.tokens = ABCounter

OnlyWhitespace(string) == \A i \in DOMAIN string : CharClass(string[i]) = "s"

\* C9: tokenizing the empty string, or a string of whitespace only, with
\* CVClusterTokenizer or WhitespaceTokenizer ends with an empty ordered token
\* sequence and an empty multiset.
C9_EmptyInput ==
    (pc = "done" /\ OnlyWhitespace(args.string)) =>
        /\ tk.string = args.string
        /\ tk.ordered_tokens = <<>>
        /\ DOMAIN tk.tokens = {}

C9_Witness ==
    /\ CVDone
    /\ args.string = <<>>
    /\ tk.ordered_tokens = <<>>
    /\ DOMAIN tk.tokens = {}

\* C10: after any sequence of tokenize calls on one CVClusterTokenizer, the
\* ordered tokens and the multiset are those of a fresh instance of the same
\* configuration after one tokenize of the last string; the consonant set,
\* the vowel set and the scaler are those the instance was constructed with.
C10_LastCallOnly ==
    LET fresh == CVClusterTokenizer_init(args.scaler, args.consonants, args.vowels)
        once == CVClusterTokenizer_tokenize(fresh, tk.string)
    IN /\ tk.consonants = fresh.consonants
       /\ tk.vowels = fresh.vowels
       /\ tk.scaler = fresh.scaler
       /\ pc = "idle" => tk = fresh
       /\ pc # "idle" =>
             /\ tk.ordered_tokens = once.ordered_tokens
             /\ tk.tokens = once.tokens

C10_Witness ==
    /\ pc = "called again"
    /\ args.scaler = "none"
    /\ tk.string = <<"e", "t">>
    /\ tk.ordered_tokens = << <<"e">>, <<"t">> >>
    /\ tk.tokens = (<<"e">> :> 1) @@ (<<"t">> :> 1)

---------------------------------------------------------------------------
(* Claims about the divisions and the documented formula *)

\* the terms of HarrisLahey.sim that the guards let through, as the
\* denominators each one divides by
HarrisLaheyFirstTermRuns(k) == k.a # 0 /\ (k.d + k.b + k.c) # 0

HarrisLaheySecondTermRuns(k) == k.d # 0 /\ (k.a + k.b + k.c) # 0

\* C11: for all counts a, b, c, d >= 0 with n = a + b + c + d (all zero and
\* a = 0 included), HarrisLahey.sim and UnknownB.sim never divide by zero:
\* in HarrisLahey a term is evaluated only when a + b + c, d + b + c and 2n
\* are non-zero, and in UnknownB a non-zero (ad - bc)^2 implies a non-zero
\* (a + b)(a + c)(b + d)(c + d).
C11_NoZeroDivisor ==
    (pc = "done" /\ args.src # args.tar) =>
        /\ ~Raised(ret.value)
        /\ \A i \in DOMAIN ret.divs : ret.divs[i] # 0
        /\ ret.callee = "HarrisLahey" =>
              /\ ret.divs =
                    (IF HarrisLaheyFirstTermRuns(card)
                     THEN <<card.a + card.b + card.c, 2 * card.n>> ELSE <<>>)
                    \o (IF HarrisLaheySecondTermRuns(card)
                        THEN <<card.d + card.b + card.c, 2 * card.n>> ELSE <<>>)
              /\ (HarrisLaheyFirstTermRuns(card) \/ HarrisLaheySecondTermRuns(card)) =>
                    /\ card.a + card.b + card.c # 0
                    /\ card.d + card.b + card.c # 0
                    /\ 2 * card.n # 0
        /\ ret.callee = "UnknownB" =>
              /\ (card.a * card.d # card.b * card.c) =>
                    /\ (card.a + card.b) * (card.a + card.c)
                          * (card.b + card.d) * (card.c + card.d) # 0
                    /\ ret.divs = <<(card.a + card.b) * (card.a + card.c)
                                      * (card.b + card.d) * (card.c + card.d)>>
              /\ (card.a * card.d = card.b * card.c) => ret.divs = <<>>

\* disjoint token sets: a = 0, the first term is skipped and the second divides
C11_Witness ==
    /\ pc = "done"
    /\ ret.callee = "HarrisLahey"
    /\ args.src # args.tar
    /\ card.a = 0 /\ card.b > 0 /\ card.c > 0 /\ card.d > 0
    /\ ret.divs = <<card.d + card.b + card.c, 2 * card.n>>

---------------------------------------------------------------------------
(* Claims about the tokens that CVClusterTokenizer leaves whole *)

\* a token of the segmentation that is a run of word characters
IsWordToken(token) == \A k \in DOMAIN token : CharClass(token[k]) = "w"

\* what a token contributes if every word token is walked and every other
\* token is left whole
PiecesOfWordToken(token, consonants, vowels) ==
    IF IsWordToken(token)
    THEN LET ps == CutPieces(token, consonants, vowels)
         IN [k \in DOMAIN ps |-> NFC(ps[k])]
    ELSE <<NFC(token)>>

\* C12: the only tokens that CVClusterTokenizer.tokenize leaves whole because
\* of their first character are the punctuation-only ones: every word token
\* is cut before each consonant that follows a vowel, also when its first
\* character is a digit, an underscore or another word character that is
\* neither a consonant nor a vowel.
C12_OnlyPunctuationIsLeftWhole ==
    CVDone =>
        LET C == tk.consonants
            V == tk.vowels
            toks == tk.token_list
        IN tk.ordered_tokens =
              Concat([i \in DOMAIN toks |-> PiecesOfWordToken(toks[i], C, V)])

---------------------------------------------------------------------------
(* Claims about HarrisLahey.sim and the formula of its documentation *)

\* one term of the documented formula, x/(x+b+c) * (2y+b+c)/(2n) as the
\* product of its two fractions, n > 0; a term whose first denominator is
\* zero counts as 0
HarrisLaheyDocumentedTerm(x, y, b, c, n) ==
    IF x + b + c = 0 THEN Zero
    ELSE QMul(Q(x, x + b + c), Q(2 * y + b + c, 2 * n))

\* a/(a+b+c) * (2d+b+c)/(2n) + d/(d+b+c) * (2a+b+c)/(2n)
HarrisLaheyDocumented(a, b, c, d, n) ==
    QAdd(HarrisLaheyDocumentedTerm(a, d, b, c, n),
         HarrisLaheyDocumentedTerm(d, a, b, c, n))

\* C13: for src # tar and all counts a, b, c, d >= 0 with n = a + b + c + d > 0,
\* HarrisLahey.sim returns a/(a+b+c) * (2d+b+c)/(2n) + d/(d+b+c) * (2a+b+c)/(2n),
\* a term whose first denominator is zero counting as 0: every term that the
\* guards skip has the value 0 under the formula.
C13_DocumentedFormula ==
    (pc = "done" /\ ret.callee = "HarrisLahey" /\ args.src # args.tar /\ card.n > 0) =>
        /\ ret.value = HarrisLaheyDocumented(card.a, card.b, card.c, card.d, card.n)
        /\ ~HarrisLaheyFirstTermRuns(card) =>
              HarrisLaheyDocumentedTerm(card.a, card.d, card.b, card.c, card.n) = Zero
        /\ ~HarrisLaheySecondTermRuns(card) =>
              HarrisLaheyDocumentedTerm(card.d, card.a, card.b, card.c, card.n) = Zero

\* a > 0 = b = c = d: the first term is skipped on d + b + c = 0 although
\* a/(a+b+c) is 1, the second on d = 0; both count as 0 under the formula
C13_Witness ==
    /\ pc = "done"
    /\ ret.callee = "HarrisLahey"
    /\ args.src # args.tar
    /\ card.a > 0 /\ card.b = 0 /\ card.c = 0 /\ card.d = 0
    /\ card.n = card.a
    /\ ret.divs = <<>>
    /\ ret.value = Zero
    /\ HarrisLaheyDocumented(card.a, card.b, card.c, card.d, card.n) = Zero

====
